---- MODULE Spec2Model ----
(***************************************************************************)
(* The request-handling engine of the http-proxy command                   *)
(* (cmd/httpproxy.go): the credential gate, the method dispatch, the       *)
(* CONNECT handler with its two relay copies, and the forward handler.     *)
(* One proxy session is followed from accept to the return of its handler, *)
(* together with the copy goroutine that may outlive it.  The client, the  *)
(* destination and the net/http server around the handler are the          *)
(* environment.                                                            *)
(***************************************************************************)
EXTENDS Integers, Sequences, FiniteSets, TLC

(* ------------------------------ bounds --------------------------------- *)

\* Bytes each peer of a CONNECT tunnel writes, and bytes of an upstream body.
MaxBytes == 2
\* Redirect hops http.Client.Do follows in the model (net/http stops at 10).
MaxRedirects == 1

(* ------------------------- program constants --------------------------- *)

StatusProxyAuthRequired == 407
StatusServiceUnavailable == 503
StatusInternalServerError == 500
StatusBadRequest == 400
StatusConnectionEstablished == 200

MethodConnect == "CONNECT"

\* The two lines of "HTTP/1.1 200 Connection Established\r\n\r\n".
SuccessLine == <<"HTTP/1.1 200 Connection Established\r\n", "\r\n">>

ChallengeHeader == <<"Proxy-Authenticate", "Basic realm=\"Proxy\"">>

(* ------------------------------ inputs --------------------------------- *)

Usernames == {"", "alice"}
Passwords == {"", "secret"}

\* internal.LoginToBase64: base64 of "username:password".
LoginToBase64(username, password) ==
    IF username = "alice" /\ password = "secret" THEN "YWxpY2U6c2VjcmV0"
    ELSE "b64(" \o username \o ":" \o password \o ")"

\* The token computed once at startup.
AuthHeaderMutEitherFlag(username, password) ==
    IF username # "" \/ password # ""
    THEN "Basic " \o LoginToBase64(username, password)
    ELSE ""

AuthHeaderOf(username, password) ==
    IF username # "" /\ password # ""
    THEN "Basic " \o LoginToBase64(username, password)
    ELSE ""

\* Values of the Proxy-Authorization header a client presents: none, the
\* right token, near misses of it, and two values of which only the second
\* is the token.
ProxyAuthHeaders ==
    { <<>>,
      <<"Basic YWxpY2U6c2VjcmV0">>,
      <<"basic YWxpY2U6c2VjcmV0">>,
      <<"Basic YWxpY2U6c2VjcmV0 ">>,
      <<"Basic d3Jvbmc6cHc=">>,
      <<"Basic d3Jvbmc6cHc=", "Basic YWxpY2U6c2VjcmV0">> }

\* Authorities of CONNECT requests: with and without a port.
Hosts == {"example.test:443", "example.test"}

\* Targets of the other requests: an absolute URL, an origin-form target,
\* and a target net/http's server accepts (url.ParseRequestURI does not
\* split or check a fragment) whose String() url.Parse rejects.
AbsoluteURL == "http://example.test/"
OriginFormURL == "/index.html"
BadEscapeURL == "http://example.test/a?b#c%zz"
URLs == {AbsoluteURL, OriginFormURL, BadEscapeURL}

\* The other header fields of a request, as <<key, value>>: none, or the
\* two fields net/http's transport would otherwise fill in.
RequestHeaders ==
    { {},
      {<<"User-Agent", "curl/8">>, <<"Accept-Encoding", "identity">>} }

\* Request bodies: none, or one byte announced by Content-Length.
RequestBodies == {<<>>, <<"q1">>}

Requests ==
    [method : {MethodConnect}, proxyAuth : ProxyAuthHeaders,
     host : Hosts, url : {""}, header : {{}}, body : {<<>>}]
    \cup
    [method : {"GET", "POST", "connect"}, proxyAuth : ProxyAuthHeaders,
     host : {"example.test"}, url : URLs, header : RequestHeaders,
     body : RequestBodies]

NoRequest == [method |-> "", proxyAuth |-> <<>>, host |-> "", url |-> "",
              header |-> {}, body |-> <<>>]

\* r.Header of the inbound request, as a set of <<key, value>>.
RHeader(r) ==
    {<<"Proxy-Authorization", r.proxyAuth[i]>> : i \in DOMAIN r.proxyAuth}
    \cup r.header
    \cup (IF r.body # <<>>
          THEN {<<"Content-Length", ToString(Len(r.body))>>} ELSE {})

\* Where an upstream redirect may point: the same host or another one.
RedirectTargets == {AbsoluteURL, "http://other.test/"}

UpstreamBody == [k \in 1..MaxBytes |-> "b" \o ToString(k)]

\* The upstream responses client.Do may return; reusable: the exchange
\* leaves the connection fit for another request (keep-alive).
Responses ==
    [status : {200, 404}, header : {{<<"X-Upstream", "1">>}},
     body : {<<>>, UpstreamBody}, reusable : BOOLEAN]

NoResponse == [status |-> 0, header |-> {}, body |-> <<>>, reusable |-> FALSE]

\* A gzip coding of a body, and its decoding by the transport's gzipReader.
GzipBytes(b) == [k \in DOMAIN b |-> "gz(" \o b[k] \o ")"]

Gunzip(z) ==
    [k \in DOMAIN z |->
        CHOOSE x \in {UpstreamBody[j] : j \in DOMAIN UpstreamBody} :
            GzipBytes(<<x>>) = <<z[k]>>]

GzipResponse(r) ==
    [r EXCEPT !.header = @ \cup {<<"Content-Encoding", "gzip">>},
              !.body = GzipBytes(@)]

\* What the upstream may answer to the request w it received: it uses the
\* gzip coding only when w accepts it.
UpstreamResponses(w) ==
    Responses \cup
    (IF <<"Accept-Encoding", "gzip">> \in w.header
     THEN {GzipResponse(r) : r \in Responses} ELSE {})

(* ------------------------------- state --------------------------------- *)

VARIABLES
    username,       \* the --username flag
    password,       \* the --password flag
    authHeader,     \* the credential token of the server
    req,            \* the request of the session
    hijackable,     \* whether the ResponseWriter is an http.Hijacker
    ctxDone,        \* r.Context() has been cancelled
    pc,             \* position of the handler
    trace,          \* "gate" and the handlers invoked, in order
    wHeader,        \* w.Header(): a set of <<key, value>>
    statuses,       \* status lines committed to the client, in order
    exit,           \* how the session ended
    dials,          \* the dials issued: [network, address, ok]
    conns,          \* the destination streams dials returned: [state, closes]
    hijacked,       \* Hijack has returned the raw client stream
    successWrites,  \* Write calls of the success line
    cliCloses,      \* Close calls on the hijacked client stream
    cliWrote,       \* bytes the client wrote after its CONNECT request
    c2p,            \* of those, the bytes not yet read by the proxy
    srvBuf,         \* of those, the bytes the server read before Hijack
    cliClosed,      \* the client has closed its stream
    cliGot,         \* what the client received on the raw stream
    dstWrote,       \* bytes the destination wrote
    d2p,            \* of those, the bytes not yet read by the proxy
    dstClosed,      \* the destination has closed its stream
    dstGot,         \* bytes the destination received
    mainBuf,        \* io.Copy(clientConn, destConn): read, not yet written
    gpc,            \* position of go io.Copy(destConn, clientConn)
    gBuf,           \* that copy: read, not yet written
    doCalls,        \* calls of client.Do
    target,         \* the URL client.Do is requesting
    hops,           \* redirects client.Do has followed
    cur,            \* the destination stream the transport is using
    resp,           \* the response client.Do returned
    bodyOut,        \* bytes of the response body written to the client
    bodyEOF,        \* io.Copy read the response body to its end
    sent,           \* the requests the transport wrote to destination streams
    up              \* the response the upstream wrote, answering client.Do

cfgVars == <<username, password, authHeader>>
reqVars == <<req, hijackable, ctxDone>>
respVars == <<wHeader, statuses>>
connVars == <<dials, conns>>
cliVars == <<cliWrote, c2p, srvBuf, cliClosed, cliGot>>
dstVars == <<dstWrote, d2p, dstClosed, dstGot>>
goVars == <<gpc, gBuf>>
tunVars == <<hijacked, successWrites, cliCloses, cliVars, dstVars, mainBuf,
             goVars>>
fwdVars == <<doCalls, target, hops, cur, resp, bodyOut, bodyEOF, sent, up>>

vars == <<cfgVars, reqVars, pc, trace, respVars, exit, connVars, tunVars,
          fwdVars>>

(* --------------------------- pure functions ---------------------------- *)

\* http.Header.Get: the first value of the key, "" when there is none.
HeaderGet(values) == IF values = <<>> THEN "" ELSE values[1]

authenticateMutAnyValue(r, expectedAuth) ==
    \E i \in 1..Len(r.proxyAuth) : r.proxyAuth[i] = expectedAuth

authenticate(r, expectedAuth) ==
    HeaderGet(r.proxyAuth) = expectedAuth

IsConnectMutFold(r) == r.method \in {"CONNECT", "connect"}

IsConnect(r) == r.method = MethodConnect

\* http.Error on a ResponseWriter that has not been hijacked: the status is
\* committed unless one already is.
HttpError(sts, code) == IF sts = <<>> THEN <<code>> ELSE sts

\* The address handleHTTPSConnect dials: r.Host as given.
DialAddressMutDefaultPort(r) ==
    IF r.host = "example.test" THEN "example.test:443" ELSE r.host

DialAddress(r) == r.host

\* tunNet.DialContext needs host:port; an address without a port fails.
DialCanSucceed(address) == address = "example.test:443"

Prefix(s, n) == SubSeq(s, 1, n)

Suffix(s, n) == SubSeq(s, n + 1, Len(s))

IsPrefix(s, t) == Len(s) <= Len(t) /\ s = Prefix(t, Len(s))

\* The outcomes of one Write of data on a stream: all of it, or, the peer
\* going away, a part of it and an error.
WriteOutcomes(peerClosed, data) ==
    IF peerClosed
    THEN {[n |-> 0, err |-> TRUE]}
    ELSE {[n |-> Len(data), err |-> FALSE]}
         \cup {[n |-> k, err |-> TRUE] : k \in 0..(Len(data) - 1)}

\* Close on a destination stream.
Closed(c) == [c EXCEPT !.state = "closed", !.closes = @ + 1]

\* http.NewRequest: the method must be a token and the URL must parse.
ValidMethod(method) == method \in {"CONNECT", "GET", "POST", "connect"}

UrlParses(url) == url # BadEscapeURL

NewRequestOKMutNoParse(method, url) == ValidMethod(method)

NewRequestOK(method, url) == ValidMethod(method) /\ UrlParses(url)

\* http.Transport sends only to an http or https URL that names a host.
SupportedURL(url) == url \in RedirectTargets

\* The address the transport dials for a URL: its host and default port.
UrlAddress(url) ==
    IF url = AbsoluteURL THEN "example.test:80" ELSE "other.test:80"

\* ResponseWriter.WriteHeader: commits the status unless one already is.
WriteHeader(sts, code) == IF sts = <<>> THEN <<code>> ELSE sts

\* copyHeader: every value of every key of src is added to dst.
copyHeader(dst, src) == dst \cup src

ClientByte(k) == "c" \o ToString(k)

DestByte(k) == "d" \o ToString(k)

\* The one destination stream of a CONNECT session.
DestOpen == Len(conns) = 1 /\ conns[1].state = "open"

(* ------------------------------ actions -------------------------------- *)

Init ==
    /\ username \in Usernames
    /\ password \in Passwords
    /\ authHeader = AuthHeaderOf(username, password)
    /\ req = NoRequest
    /\ hijackable = TRUE
    /\ ctxDone = FALSE
    /\ pc = "idle"
    /\ trace = <<>>
    /\ wHeader = {}
    /\ statuses = <<>>
    /\ exit = "none"
    /\ dials = <<>>
    /\ conns = <<>>
    /\ hijacked = FALSE
    /\ successWrites = 0
    /\ cliCloses = 0
    /\ cliWrote = <<>>
    /\ c2p = <<>>
    /\ srvBuf = <<>>
    /\ cliClosed = FALSE
    /\ cliGot = <<>>
    /\ dstWrote = <<>>
    /\ d2p = <<>>
    /\ dstClosed = FALSE
    /\ dstGot = <<>>
    /\ mainBuf = <<>>
    /\ gpc = "none"
    /\ gBuf = <<>>
    /\ doCalls = 0
    /\ target = ""
    /\ hops = 0
    /\ cur = 0
    /\ resp = NoResponse
    /\ bodyOut = <<>>
    /\ bodyEOF = FALSE
    /\ sent = <<>>
    /\ up = NoResponse

\* The server accepts a request and calls the handler.
Accept ==
    /\ pc = "idle"
    /\ \E r \in Requests, h \in BOOLEAN :
         /\ req' = r
         /\ hijackable' = h
    /\ ctxDone' = FALSE
    /\ pc' = "gate"
    /\ UNCHANGED <<cfgVars, trace, respVars, exit, connVars, tunVars,
                   fwdVars>>

\* Handler, lines 187-191.
GateReject ==
    /\ pc = "gate"
    /\ ~authenticate(req, authHeader)
    /\ trace' = Append(trace, "gate")
    /\ wHeader' = wHeader \cup {ChallengeHeader}
    /\ statuses' = HttpError(statuses, StatusProxyAuthRequired)
    /\ exit' = "AuthRequired"
    /\ pc' = "done"
    /\ UNCHANGED <<cfgVars, reqVars, connVars, tunVars,
                   fwdVars>>

GatePass ==
    /\ pc = "gate"
    /\ authenticate(req, authHeader)
    /\ trace' = Append(trace, "gate")
    /\ pc' = "branch"
    /\ UNCHANGED <<cfgVars, reqVars, respVars, exit, connVars, tunVars,
                   fwdVars>>

\* Handler, lines 193-197.
BranchConnect ==
    /\ pc = "branch"
    /\ IsConnect(req)
    /\ trace' = Append(trace, "connect")
    /\ pc' = "c_dial"
    /\ UNCHANGED <<cfgVars, reqVars, respVars, exit, connVars, tunVars,
                   fwdVars>>

BranchForward ==
    /\ pc = "branch"
    /\ ~IsConnect(req)
    /\ trace' = Append(trace, "forward")
    /\ pc' = "f_newreq"
    /\ UNCHANGED <<cfgVars, reqVars, respVars, exit, connVars, tunVars,
                   fwdVars>>

(* ------------------------ handleHTTPSConnect --------------------------- *)

\* Line 228, err != nil: lines 229-232.
ConnectDialFail ==
    /\ pc = "c_dial"
    /\ dials' = Append(dials, [network |-> "tcp",
                               address |-> DialAddress(req), ok |-> FALSE])
    /\ statuses' = HttpError(statuses, StatusServiceUnavailable)
    /\ exit' = "DialFailed"
    /\ pc' = "done"
    /\ UNCHANGED <<cfgVars, reqVars, trace, wHeader, conns, tunVars,
                   fwdVars>>

\* A dial that returns its error while the connection it made stays open.
ConnectDialAbandonMutLeak ==
    /\ pc = "c_dial"
    /\ ctxDone
    /\ dials' = Append(dials, [network |-> "tcp",
                               address |-> DialAddress(req), ok |-> FALSE])
    /\ conns' = Append(conns, [addr |-> DialAddress(req), state |-> "open",
                                closes |-> 0])
    /\ statuses' = HttpError(statuses, StatusServiceUnavailable)
    /\ exit' = "DialFailed"
    /\ pc' = "done"
    /\ UNCHANGED <<cfgVars, reqVars, trace, wHeader, tunVars, fwdVars>>

\* Line 228: the dial is given r.Context(); a dial in progress whose
\* context is cancelled returns the context's error and no connection.
\* Lines 229-232 follow.
ConnectDialAbandon ==
    /\ pc = "c_dial"
    /\ ctxDone
    /\ dials' = Append(dials, [network |-> "tcp",
                               address |-> DialAddress(req), ok |-> FALSE])
    /\ statuses' = HttpError(statuses, StatusServiceUnavailable)
    /\ exit' = "DialFailed"
    /\ pc' = "done"
    /\ UNCHANGED <<cfgVars, reqVars, trace, wHeader, conns, tunVars,
                   fwdVars>>

\* Line 228, err == nil; line 233 defers destConn.Close().
ConnectDialOK ==
    /\ pc = "c_dial"
    /\ DialCanSucceed(DialAddress(req))
    /\ dials' = Append(dials, [network |-> "tcp",
                               address |-> DialAddress(req), ok |-> TRUE])
    /\ conns' = Append(conns, [addr |-> DialAddress(req), state |-> "open",
                                closes |-> 0])
    /\ pc' = "c_hijack"
    /\ UNCHANGED <<cfgVars, reqVars, trace, respVars, exit, tunVars,
                   fwdVars>>

\* Lines 235-239.
ConnectHijackUnsupported ==
    /\ pc = "c_hijack"
    /\ ~hijackable
    /\ statuses' = HttpError(statuses, StatusInternalServerError)
    /\ exit' = "HijackUnsupported"
    /\ pc' = "c_close_dest"
    /\ UNCHANGED <<cfgVars, reqVars, trace, wHeader, connVars, tunVars,
                   fwdVars>>

ConnectHijackFailMutNoClose ==
    /\ pc = "c_hijack"
    /\ hijackable
    /\ statuses' = HttpError(statuses, StatusInternalServerError)
    /\ exit' = "HijackFailed"
    /\ pc' = "done"
    /\ UNCHANGED <<cfgVars, reqVars, trace, wHeader, connVars, tunVars,
                   fwdVars>>

\* Lines 241-245.
ConnectHijackFail ==
    /\ pc = "c_hijack"
    /\ hijackable
    /\ statuses' = HttpError(statuses, StatusInternalServerError)
    /\ exit' = "HijackFailed"
    /\ pc' = "c_close_dest"
    /\ UNCHANGED <<cfgVars, reqVars, trace, wHeader, connVars, tunVars,
                   fwdVars>>

ConnectHijackOKMutSpawnFirst ==
    /\ pc = "c_hijack"
    /\ hijackable
    /\ hijacked' = TRUE
    /\ gpc' = "read"
    /\ pc' = "c_write"
    /\ UNCHANGED <<cfgVars, reqVars, trace, respVars, exit, connVars,
                   successWrites, cliCloses, cliVars, dstVars, mainBuf, gBuf,
                   fwdVars>>

\* Line 241, err == nil: the raw stream is kept and the bufio.ReadWriter
\* Hijack returns with it, which holds srvBuf, is dropped; line 246 defers
\* clientConn.Close().
ConnectHijackOK ==
    /\ pc = "c_hijack"
    /\ hijackable
    /\ hijacked' = TRUE
    /\ pc' = "c_write"
    /\ UNCHANGED <<cfgVars, reqVars, trace, respVars, exit, connVars,
                   successWrites, cliCloses, cliVars, dstVars, mainBuf, goVars,
                   fwdVars>>

ConnectWriteSuccessLineMutCheckErr ==
    /\ pc = "c_write"
    /\ \E o \in WriteOutcomes(cliClosed, SuccessLine) :
         /\ cliGot' = cliGot \o Prefix(SuccessLine, o.n)
         /\ cliClosed' = (cliClosed \/ o.err)
         /\ pc' = IF o.err THEN "c_close_client" ELSE "c_go"
    /\ successWrites' = successWrites + 1
    /\ statuses' = Append(statuses, StatusConnectionEstablished)
    /\ UNCHANGED <<cfgVars, reqVars, trace, wHeader, exit, connVars, hijacked,
                   cliCloses, cliWrote, c2p, srvBuf, dstVars, mainBuf, goVars,
                   fwdVars>>

\* Line 248: the result of Write is not looked at.
ConnectWriteSuccessLine ==
    /\ pc = "c_write"
    /\ \E o \in WriteOutcomes(cliClosed, SuccessLine) :
         /\ cliGot' = cliGot \o Prefix(SuccessLine, o.n)
         /\ cliClosed' = (cliClosed \/ o.err)
    /\ successWrites' = successWrites + 1
    /\ statuses' = Append(statuses, StatusConnectionEstablished)
    /\ pc' = "c_go"
    /\ UNCHANGED <<cfgVars, reqVars, trace, wHeader, exit, connVars, hijacked,
                   cliCloses, cliWrote, c2p, srvBuf, dstVars, mainBuf, goVars,
                   fwdVars>>

\* Line 250: go io.Copy(destConn, clientConn).
ConnectSpawnCopy ==
    /\ pc = "c_go"
    /\ gpc' = "read"
    /\ pc' = "c_copy_read"
    /\ UNCHANGED <<cfgVars, reqVars, trace, respVars, exit, connVars, hijacked,
                   successWrites, cliCloses, cliVars, dstVars, mainBuf, gBuf,
                   fwdVars>>

\* Line 251, io.Copy(clientConn, destConn): a Read of destConn that returns
\* bytes.
MainReadData ==
    /\ pc = "c_copy_read"
    /\ d2p # <<>>
    /\ \E n \in 1..Len(d2p) :
         /\ mainBuf' = Prefix(d2p, n)
         /\ d2p' = Suffix(d2p, n)
    /\ pc' = "c_copy_write"
    /\ UNCHANGED <<cfgVars, reqVars, trace, respVars, exit, connVars, hijacked,
                   successWrites, cliCloses, cliVars, dstWrote, dstClosed,
                   dstGot, goVars,
                   fwdVars>>

\* Line 251: the Read of destConn returns EOF; io.Copy and the handler
\* return, and the deferred closes run.
MainReadEOF ==
    /\ pc = "c_copy_read"
    /\ d2p = <<>>
    /\ dstClosed
    /\ pc' = "c_close_client"
    /\ UNCHANGED <<cfgVars, reqVars, trace, respVars, exit, connVars, tunVars,
                   fwdVars>>

MainWriteMutReportError ==
    /\ pc = "c_copy_write"
    /\ \E o \in WriteOutcomes(cliClosed, mainBuf) :
         /\ cliGot' = cliGot \o Prefix(mainBuf, o.n)
         /\ cliClosed' = (cliClosed \/ o.err)
         /\ pc' = IF o.err THEN "c_close_client" ELSE "c_copy_read"
         /\ statuses' = IF o.err THEN Append(statuses, 502) ELSE statuses
    /\ mainBuf' = <<>>
    /\ UNCHANGED <<cfgVars, reqVars, trace, wHeader, exit, connVars, hijacked,
                   successWrites, cliCloses, cliWrote, c2p, srvBuf, dstVars,
                   goVars, fwdVars>>

\* Line 251: the Write to clientConn of what was read.
MainWrite ==
    /\ pc = "c_copy_write"
    /\ \E o \in WriteOutcomes(cliClosed, mainBuf) :
         /\ cliGot' = cliGot \o Prefix(mainBuf, o.n)
         /\ cliClosed' = (cliClosed \/ o.err)
         /\ pc' = IF o.err THEN "c_close_client" ELSE "c_copy_read"
    /\ mainBuf' = <<>>
    /\ UNCHANGED <<cfgVars, reqVars, trace, respVars, exit, connVars, hijacked,
                   successWrites, cliCloses, cliWrote, c2p, srvBuf, dstVars,
                   goVars,
                   fwdVars>>

ConnectCloseClientMutSkip ==
    /\ pc = "c_close_client"
    /\ pc' = "c_close_dest"
    /\ UNCHANGED <<cfgVars, reqVars, trace, respVars, exit, connVars, tunVars,
                   fwdVars>>

\* Line 246, deferred: clientConn.Close().
ConnectCloseClient ==
    /\ pc = "c_close_client"
    /\ cliCloses' = cliCloses + 1
    /\ pc' = "c_close_dest"
    /\ UNCHANGED <<cfgVars, reqVars, trace, respVars, exit, connVars, hijacked,
                   successWrites, cliVars, dstVars, mainBuf, goVars,
                   fwdVars>>

\* Line 233, deferred: destConn.Close(); the handler has returned.
ConnectCloseDest ==
    /\ pc = "c_close_dest"
    /\ conns' = [conns EXCEPT ![1] = Closed(@)]
    /\ exit' = IF exit = "none" THEN "Closed" ELSE exit
    /\ pc' = "done"
    /\ UNCHANGED <<cfgVars, reqVars, trace, respVars, dials, tunVars,
                   fwdVars>>

\* A Read that a Close of clientConn does not interrupt.
GoReadMutIgnoreClose ==
    /\ gpc = "read"
    /\ \/ /\ c2p # <<>>
          /\ \E n \in 1..Len(c2p) :
               /\ gBuf' = Prefix(c2p, n)
               /\ c2p' = Suffix(c2p, n)
          /\ gpc' = "write"
       \/ /\ c2p = <<>>
          /\ cliClosed
          /\ gpc' = "done"
          /\ UNCHANGED <<gBuf, c2p>>
    /\ UNCHANGED <<cfgVars, reqVars, pc, trace, respVars, exit, connVars,
                   hijacked, successWrites, cliCloses, cliWrote, srvBuf,
                   cliClosed, cliGot, dstVars, mainBuf, fwdVars>>

\* A copy whose end makes the handler return.
GoReadMutEndsHandler ==
    /\ gpc = "read"
    /\ \/ /\ cliCloses > 0
          /\ gpc' = "done"
          /\ UNCHANGED <<gBuf, c2p, pc>>
       \/ /\ cliCloses = 0
          /\ c2p # <<>>
          /\ \E n \in 1..Len(c2p) :
               /\ gBuf' = Prefix(c2p, n)
               /\ c2p' = Suffix(c2p, n)
          /\ gpc' = "write"
          /\ UNCHANGED pc
       \/ /\ cliCloses = 0
          /\ c2p = <<>>
          /\ cliClosed
          /\ gpc' = "done"
          /\ pc' = IF pc \in {"c_copy_read", "c_copy_write"}
                    THEN "c_close_client" ELSE pc
          /\ UNCHANGED <<gBuf, c2p>>
    /\ UNCHANGED <<cfgVars, reqVars, trace, respVars, exit, connVars,
                   hijacked, successWrites, cliCloses, cliWrote, srvBuf,
                   cliClosed, cliGot, dstVars, mainBuf, fwdVars>>

\* Line 250, io.Copy(destConn, clientConn): a Read of clientConn.  It fails
\* once the handler has closed clientConn, returns bytes when there are
\* some, and EOF when the client has closed.
GoRead ==
    /\ gpc = "read"
    /\ \/ /\ cliCloses > 0
          /\ gpc' = "done"
          /\ UNCHANGED <<gBuf, c2p>>
       \/ /\ cliCloses = 0
          /\ c2p # <<>>
          /\ \E n \in 1..Len(c2p) :
               /\ gBuf' = Prefix(c2p, n)
               /\ c2p' = Suffix(c2p, n)
          /\ gpc' = "write"
       \/ /\ cliCloses = 0
          /\ c2p = <<>>
          /\ cliClosed
          /\ gpc' = "done"
          /\ UNCHANGED <<gBuf, c2p>>
    /\ UNCHANGED <<cfgVars, reqVars, pc, trace, respVars, exit, connVars,
                   hijacked, successWrites, cliCloses, cliWrote, srvBuf,
                   cliClosed, cliGot, dstVars, mainBuf,
                   fwdVars>>

\* Line 250: the Write to destConn of what was read.  It fails once the
\* handler has closed destConn.
GoWrite ==
    /\ gpc = "write"
    /\ \E o \in WriteOutcomes(dstClosed \/ conns[1].closes > 0, gBuf) :
         /\ dstGot' = dstGot \o Prefix(gBuf, o.n)
         /\ dstClosed' = (dstClosed \/ (o.err /\ conns[1].closes = 0))
         /\ gpc' = IF o.err THEN "done" ELSE "read"
    /\ gBuf' = <<>>
    /\ UNCHANGED <<cfgVars, reqVars, pc, trace, respVars, exit, connVars,
                   hijacked, successWrites, cliCloses, cliVars, dstWrote, d2p,
                   mainBuf,
                   fwdVars>>

(* -------------------------- handleHTTPProxy ---------------------------- *)

\* Lines 267 and 273: the request handed to client.Do.
NewRequest(r) ==
    [method |-> r.method, url |-> r.url, header |-> RHeader(r),
     body |-> r.body]

\* Line 275, client.Do following a 301, 302 or 303 to location t: the
\* method becomes GET unless it was GET or HEAD, the body is dropped, the
\* header fields are kept and a Referer is added.
RedirectRequest(o, t) ==
    [method |-> IF o.method \in {"GET", "HEAD"} THEN o.method ELSE "GET",
     url |-> t,
     header |-> o.header \cup {<<"Referer", o.url>>},
     body |-> <<>>]

\* The request client.Do is sending now.
OutReq ==
    IF hops = 0 THEN NewRequest(req)
    ELSE RedirectRequest(NewRequest(req), target)

HasField(header, key) == \E h \in header : h[1] = key

DefaultUserAgent == "Go-http-client/1.1"

\* Lines 262-264: the Transport is made with DisableCompression unset, so
\* it asks for gzip itself when the request names no Accept-Encoding.
AddedGzip(o) ==
    ~HasField(o.header, "Accept-Encoding") /\ o.method # "HEAD"

\* Line 275: what the transport writes to the destination stream for o.  A
\* body of unknown length (r.Body is no in-memory reader) goes out chunked
\* and the Content-Length field of o is not written; User-Agent and
\* Accept-Encoding are filled in when o has none.
WireRequest(o) ==
    [method |-> o.method, url |-> o.url, body |-> o.body,
     header |->
        {h \in o.header : h[1] # "Content-Length"}
        \cup (IF o.body # <<>>
              THEN {<<"Transfer-Encoding", "chunked">>} ELSE {})
        \cup (IF HasField(o.header, "User-Agent")
              THEN {} ELSE {<<"User-Agent", DefaultUserAgent>>})
        \cup (IF AddedGzip(o)
              THEN {<<"Accept-Encoding", "gzip">>} ELSE {})]

\* Line 275: the response client.Do returns for the upstream's u.  When the
\* transport asked for gzip itself it decodes the body and deletes the
\* Content-Encoding and Content-Length fields.
TransportResponse(u, addedGzip) ==
    IF addedGzip /\ <<"Content-Encoding", "gzip">> \in u.header
    THEN [u EXCEPT
            !.header = {h \in @ : h[1] \notin {"Content-Encoding",
                                                "Content-Length"}},
            !.body = Gunzip(@)]
    ELSE u

\* Line 267, err != nil: lines 268-271.
FwdNewRequestFail ==
    /\ pc = "f_newreq"
    /\ ~NewRequestOK(req.method, req.url)
    /\ statuses' = HttpError(statuses, StatusBadRequest)
    /\ exit' = "MalformedRequest"
    /\ pc' = "done"
    /\ UNCHANGED <<cfgVars, reqVars, trace, wHeader, connVars, tunVars,
                   fwdVars>>

\* Lines 267 and 273, then the call of client.Do at line 275.
FwdNewRequestOK ==
    /\ pc = "f_newreq"
    /\ NewRequestOK(req.method, req.url)
    /\ doCalls' = doCalls + 1
    /\ target' = req.url
    /\ pc' = "f_do"
    /\ UNCHANGED <<cfgVars, reqVars, trace, respVars, exit, connVars, tunVars,
                   hops, cur, resp, bodyOut, bodyEOF, sent, up>>

\* Lines 275-279: client.Do fails before any dial, the URL having no http
\* scheme or no host.
FwdDoReject ==
    /\ pc = "f_do"
    /\ ~SupportedURL(target)
    /\ statuses' = HttpError(statuses, StatusServiceUnavailable)
    /\ exit' = "UpstreamUnreachable"
    /\ pc' = "done"
    /\ UNCHANGED <<cfgVars, reqVars, trace, wHeader, connVars, tunVars,
                   fwdVars>>

\* Lines 275-279: the transport's dial (line 263) fails.
FwdDialFail ==
    /\ pc = "f_do"
    /\ SupportedURL(target)
    /\ dials' = Append(dials, [network |-> "tcp",
                               address |-> UrlAddress(target), ok |-> FALSE])
    /\ statuses' = HttpError(statuses, StatusServiceUnavailable)
    /\ exit' = "UpstreamUnreachable"
    /\ pc' = "done"
    /\ UNCHANGED <<cfgVars, reqVars, trace, wHeader, conns, tunVars, fwdVars>>

\* Line 275: the transport's dial (line 263) returns a stream.
FwdDialOK ==
    /\ pc = "f_do"
    /\ SupportedURL(target)
    /\ dials' = Append(dials, [network |-> "tcp",
                               address |-> UrlAddress(target), ok |-> TRUE])
    /\ conns' = Append(conns, [addr |-> UrlAddress(target), state |-> "open",
                                closes |-> 0])
    /\ cur' = Len(conns) + 1
    /\ sent' = Append(sent, WireRequest(OutReq))
    /\ pc' = "f_roundtrip"
    /\ UNCHANGED <<cfgVars, reqVars, trace, respVars, exit, tunVars, doCalls,
                   target, hops, resp, bodyOut, bodyEOF, up>>

\* Line 275: after a redirect the transport takes the idle stream it kept
\* to the same host instead of dialing.
FwdReuseIdle ==
    /\ pc = "f_do"
    /\ \E i \in 1..Len(conns) :
         /\ conns[i].state = "idle"
         /\ conns[i].addr = UrlAddress(target)
         /\ conns' = [conns EXCEPT ![i].state = "open"]
         /\ cur' = i
    /\ sent' = Append(sent, WireRequest(OutReq))
    /\ pc' = "f_roundtrip"
    /\ UNCHANGED <<cfgVars, reqVars, trace, respVars, exit, dials, tunVars,
                   doCalls, target, hops, resp, bodyOut, bodyEOF, up>>

\* Lines 275-279: writing the request or reading the response fails; the
\* transport closes the stream.
FwdTransportFail ==
    /\ pc = "f_roundtrip"
    /\ conns' = [conns EXCEPT ![cur] = Closed(@)]
    /\ statuses' = HttpError(statuses, StatusServiceUnavailable)
    /\ exit' = "UpstreamUnreachable"
    /\ pc' = "done"
    /\ UNCHANGED <<cfgVars, reqVars, trace, wHeader, dials, tunVars, fwdVars>>

\* Line 275: the upstream answers with a redirect; client.Do closes that
\* response's body, which leaves the stream idle in the transport or
\* closes it, and requests the new location.
FwdRedirect ==
    /\ pc = "f_roundtrip"
    /\ hops < MaxRedirects
    /\ \E t \in RedirectTargets : target' = t
    /\ \E keep \in BOOLEAN :
         conns' = [conns EXCEPT ![cur] =
                     IF keep THEN [@ EXCEPT !.state = "idle"] ELSE Closed(@)]
    /\ hops' = hops + 1
    /\ pc' = "f_do"
    /\ UNCHANGED <<cfgVars, reqVars, trace, respVars, exit, dials, tunVars,
                   doCalls, cur, resp, bodyOut, bodyEOF, sent, up>>

\* Line 275, err == nil; line 280 defers resp.Body.Close().
FwdResponse ==
    /\ pc = "f_roundtrip"
    /\ \E u \in UpstreamResponses(sent[Len(sent)]) :
         /\ up' = u
         /\ resp' = TransportResponse(u, AddedGzip(OutReq))
    /\ pc' = "f_respond"
    /\ UNCHANGED <<cfgVars, reqVars, trace, respVars, exit, connVars, tunVars,
                   doCalls, target, hops, cur, bodyOut, bodyEOF, sent>>

\* Lines 282-283.
FwdWriteHeader ==
    /\ pc = "f_respond"
    /\ wHeader' = copyHeader(wHeader, resp.header)
    /\ statuses' = WriteHeader(statuses, resp.status)
    /\ pc' = "f_body"
    /\ UNCHANGED <<cfgVars, reqVars, trace, exit, connVars, tunVars, fwdVars>>

\* Line 284, io.Copy(w, resp.Body): all of the body, or a part of it when
\* a read of the body or a write to the client fails.
FwdCopyBody ==
    /\ pc = "f_body"
    /\ \E n \in 0..Len(resp.body) :
         /\ bodyOut' = Prefix(resp.body, n)
         /\ bodyEOF' = (n = Len(resp.body))
    /\ pc' = "f_close"
    /\ UNCHANGED <<cfgVars, reqVars, trace, respVars, exit, connVars, tunVars,
                   doCalls, target, hops, cur, resp, sent, up>>

\* Line 280, deferred: resp.Body.Close().  A body read to its end on a
\* reusable stream has left the stream idle in the transport's pool, and
\* Close does nothing more; otherwise the transport closes the stream.  The
\* transport was made at lines 261-265 for this request alone and nothing
\* closes its idle streams.
FwdBodyClose ==
    /\ pc = "f_close"
    /\ conns' = [conns EXCEPT ![cur] =
                   IF bodyEOF /\ resp.reusable
                   THEN [@ EXCEPT !.state = "idle"] ELSE Closed(@)]
    /\ exit' = "Forwarded"
    /\ pc' = "done"
    /\ UNCHANGED <<cfgVars, reqVars, trace, respVars, dials, tunVars, fwdVars>>

(* -------------------- the peers of a CONNECT session ------------------- *)

InConnect == pc \in {"c_dial", "c_hijack", "c_write", "c_go", "c_copy_read",
                     "c_copy_write", "c_close_client", "c_close_dest"}

\* The client writes its next byte; it need not wait for the success line.
ClientWrite ==
    /\ InConnect
    /\ ~cliClosed
    /\ cliCloses = 0
    /\ Len(cliWrote) < MaxBytes
    /\ cliWrote' = Append(cliWrote, ClientByte(Len(cliWrote) + 1))
    /\ c2p' = Append(c2p, ClientByte(Len(cliWrote) + 1))
    /\ UNCHANGED <<cfgVars, reqVars, pc, trace, respVars, exit, connVars,
                   hijacked, successWrites, cliCloses, srvBuf, cliClosed,
                   cliGot, dstVars, mainBuf, goVars,
                   fwdVars>>

ClientClose ==
    /\ InConnect
    /\ ~cliClosed
    /\ cliCloses = 0
    /\ cliClosed' = TRUE
    /\ UNCHANGED <<cfgVars, reqVars, pc, trace, respVars, exit, connVars,
                   hijacked, successWrites, cliCloses, cliWrote, c2p, srvBuf,
                   cliGot, dstVars, mainBuf, goVars,
                   fwdVars>>

\* net/http's server reads ahead on the client connection while the handler
\* runs (its bufio.Reader, and the background read started for a request
\* without a body): bytes that arrive before Hijack end up in the
\* bufio.ReadWriter Hijack returns.
ServerReadAhead ==
    /\ pc \in {"c_dial", "c_hijack"}
    /\ c2p # <<>>
    /\ \E n \in 1..Len(c2p) :
         /\ srvBuf' = srvBuf \o Prefix(c2p, n)
         /\ c2p' = Suffix(c2p, n)
    /\ UNCHANGED <<cfgVars, reqVars, pc, trace, respVars, exit, connVars,
                   hijacked, successWrites, cliCloses, cliWrote, cliClosed,
                   cliGot, dstVars, mainBuf, goVars,
                   fwdVars>>

\* The request's context (line 228, r.Context()): net/http cancels it when
\* its background read of the client connection fails, which is when the
\* client closes before it has sent a byte, and only until Hijack.
ContextCancel ==
    /\ pc \in {"c_dial", "c_hijack"}
    /\ cliClosed
    /\ cliWrote = <<>>
    /\ ~ctxDone
    /\ ctxDone' = TRUE
    /\ UNCHANGED <<cfgVars, req, hijackable, pc, trace, respVars, exit,
                   connVars, tunVars, fwdVars>>

DestWrite ==
    /\ InConnect
    /\ DestOpen
    /\ ~dstClosed
    /\ Len(dstWrote) < MaxBytes
    /\ dstWrote' = Append(dstWrote, DestByte(Len(dstWrote) + 1))
    /\ d2p' = Append(d2p, DestByte(Len(dstWrote) + 1))
    /\ UNCHANGED <<cfgVars, reqVars, pc, trace, respVars, exit, connVars,
                   hijacked, successWrites, cliCloses, cliVars, dstClosed,
                   dstGot, mainBuf, goVars,
                   fwdVars>>

DestClose ==
    /\ InConnect
    /\ DestOpen
    /\ ~dstClosed
    /\ dstClosed' = TRUE
    /\ UNCHANGED <<cfgVars, reqVars, pc, trace, respVars, exit, connVars,
                   hijacked, successWrites, cliCloses, cliVars, dstWrote, d2p,
                   dstGot, mainBuf, goVars,
                   fwdVars>>

(* --------------------------- specification ----------------------------- *)

Dispatcher == Accept \/ GateReject \/ GatePass \/ BranchConnect \/ BranchForward

ConnectHandler ==
    \/ ConnectDialFail
    \/ ConnectDialAbandon
    \/ ConnectDialOK
    \/ ConnectHijackUnsupported
    \/ ConnectHijackFail
    \/ ConnectHijackOK
    \/ ConnectWriteSuccessLine
    \/ ConnectSpawnCopy
    \/ MainReadData
    \/ MainReadEOF
    \/ MainWrite
    \/ ConnectCloseClient
    \/ ConnectCloseDest

CopyGoroutine == GoRead \/ GoWrite

ForwardHandler ==
    \/ FwdNewRequestFail
    \/ FwdNewRequestOK
    \/ FwdDoReject
    \/ FwdDialFail
    \/ FwdDialOK
    \/ FwdReuseIdle
    \/ FwdTransportFail
    \/ FwdRedirect
    \/ FwdResponse
    \/ FwdWriteHeader
    \/ FwdCopyBody
    \/ FwdBodyClose

Peers ==
    \/ ClientWrite
    \/ ClientClose
    \/ ServerReadAhead
    \/ ContextCancel
    \/ DestWrite
    \/ DestClose

Next ==
    Dispatcher \/ ConnectHandler \/ CopyGoroutine \/ ForwardHandler \/ Peers

Spec == Init /\ [][Next]_vars

\* The handler and the copy goroutine run whenever they can; the peers owe
\* nothing.
FairSpec ==
    /\ Spec
    /\ WF_vars(Dispatcher)
    /\ WF_vars(ConnectHandler)
    /\ WF_vars(CopyGoroutine)
    /\ WF_vars(ForwardHandler)

\* Nothing is assumed of the network: a dial may stay in progress for ever.
\* Only the return of a dial whose context is cancelled is owed.
CancelFairSpec ==
    /\ Spec
    /\ WF_vars(ConnectDialAbandon)

(* ------------------------------- claims -------------------------------- *)

GateRan == pc \notin {"idle", "gate"}

HandlerReturned == pc = "done"

NothingFromUpstream == resp = NoResponse /\ wHeader = {} /\ bodyOut = <<>>

\* What the relay wrote to the client: what follows the success line.
RelayedToClient ==
    IF Len(cliGot) > Len(SuccessLine) THEN Suffix(cliGot, Len(SuccessLine))
    ELSE <<>>

\* The relay has read or written a byte, or its goroutine has started.
RelayActive ==
    \/ gpc # "none"
    \/ mainBuf # <<>>
    \/ gBuf # <<>>
    \/ dstGot # <<>>
    \/ RelayedToClient # <<>>
    \/ Len(d2p) < Len(dstWrote)
    \/ Len(srvBuf) + Len(c2p) < Len(cliWrote)

\* C1: with a non-empty token, a request is answered 407 with the
\* Proxy-Authenticate challenge exactly when the first value of its
\* Proxy-Authorization header (none counting as "") differs from the token;
\* then nothing is dialed and no handler runs.
C1_AuthGate ==
    (authHeader # "" /\ GateRan) =>
        /\ (exit = "AuthRequired") <=> (HeaderGet(req.proxyAuth) # authHeader)
        /\ exit = "AuthRequired" =>
             /\ statuses = <<StatusProxyAuthRequired>>
             /\ ChallengeHeader \in wHeader
             /\ dials = <<>>
             /\ trace = <<"gate">>
             /\ HandlerReturned

C1_Witness ==
    /\ authHeader # ""
    /\ exit = "AuthRequired"
    /\ req.method = MethodConnect
    /\ req.proxyAuth = <<"Basic d3Jvbmc6cHc=", "Basic YWxpY2U6c2VjcmV0">>

\* C2: with an empty token no request is answered 407, whatever its
\* Proxy-Authorization header; every request reaches a handler.
C2_AuthBypass ==
    (authHeader = "" /\ GateRan) =>
        /\ exit # "AuthRequired"
        /\ StatusProxyAuthRequired \notin {statuses[i] : i \in 1..Len(statuses)}

\* C3: when the handler has returned, every destination stream a dial
\* returned has been closed exactly once.
C3_ResourceCleanup ==
    HandlerReturned => \A i \in 1..Len(conns) : conns[i].closes = 1

\* C4: in an established tunnel, once the client or the destination has
\* closed its stream, the handler eventually returns with both the client
\* stream and the destination stream closed.
C4_RelayTermination ==
    (pc \in {"c_copy_read", "c_copy_write"} /\ (cliClosed \/ dstClosed))
        ~> (HandlerReturned /\ cliCloses = 1 /\ conns[1].closes = 1)

\* C5: in a CONNECT session whose dial and hijack succeeded the success
\* line is written once, before the relay reads, writes or starts in either
\* direction; on the client stream the whole line precedes every relayed
\* byte.
C5_SuccessLineOrdering ==
    /\ successWrites <= 1
    /\ successWrites = 1 => hijacked
    /\ RelayActive => successWrites = 1
    /\ (hijacked /\ HandlerReturned) => successWrites = 1
    /\ IsPrefix(cliGot, SuccessLine) \/ IsPrefix(SuccessLine, cliGot)

C5_Witness ==
    /\ successWrites = 1
    /\ dstGot # <<>>
    /\ RelayedToClient # <<>>

\* C6: what the destination received is a prefix of what the client wrote
\* after its CONNECT request, and what the client received after the
\* success line is a prefix of what the destination wrote.
C6_RelayFidelity ==
    /\ IsPrefix(dstGot, cliWrote)
    /\ IsPrefix(RelayedToClient, dstWrote)

\* C7: a CONNECT session dials once, network tcp, the authority as given;
\* when that dial fails the client gets 503 and the session ends with no
\* second dial, no hijack, no success line and no relay.
C7_ConnectDialFailure ==
    /\ (Len(trace) = 2 /\ trace[2] = "connect") =>
         /\ Len(dials) <= 1
         /\ \A i \in 1..Len(dials) :
              dials[i].network = "tcp" /\ dials[i].address = req.host
    /\ exit = "DialFailed" =>
         /\ HandlerReturned
         /\ statuses = <<StatusServiceUnavailable>>
         /\ Len(dials) = 1 /\ ~dials[1].ok
         /\ conns = <<>>
         /\ ~hijacked
         /\ successWrites = 0
         /\ cliGot = <<>>
         /\ ~RelayActive

C7_Witness ==
    /\ exit = "DialFailed"
    /\ req.host = "example.test:443"
    /\ cliWrote # <<>>

\* C8: a request that passed the gate is handed to one handler, the
\* CONNECT handler when its method is CONNECT and the forward handler
\* otherwise, and the gate ran first.
C8_Dispatch ==
    /\ trace \in {<<>>, <<"gate">>, <<"gate", "connect">>, <<"gate", "forward">>}
    /\ Len(trace) = 2 =>
         /\ HeaderGet(req.proxyAuth) = authHeader
         /\ trace[2] = IF req.method = "CONNECT" THEN "connect" ELSE "forward"
    /\ (pc \notin {"idle", "gate", "branch"} /\ exit # "AuthRequired") =>
         Len(trace) = 2

C8_Witness ==
    /\ trace = <<"gate", "forward">>
    /\ req.method = "connect"

\* C9: in the forward handler a request http.NewRequest rejects is answered
\* 400 with no dial; a failure of client.Do is answered 503, client.Do
\* having been called once and no dial following a failed one; in both
\* cases nothing of an upstream response reaches the client.
C9_ForwardErrors ==
    /\ exit = "MalformedRequest" =>
         /\ HandlerReturned
         /\ statuses = <<StatusBadRequest>>
         /\ dials = <<>>
         /\ doCalls = 0
         /\ NothingFromUpstream
    /\ (HandlerReturned /\ Len(trace) = 2 /\ trace[2] = "forward"
            /\ ~UrlParses(req.url)) => exit = "MalformedRequest"
    /\ exit = "UpstreamUnreachable" =>
         /\ HandlerReturned
         /\ statuses = <<StatusServiceUnavailable>>
         /\ doCalls = 1
         /\ \A i \in 1..Len(dials) : ~dials[i].ok => i = Len(dials)
         /\ NothingFromUpstream

C9_Witness ==
    /\ exit = "UpstreamUnreachable"
    /\ Len(dials) = 2
    /\ ~dials[2].ok

\* C10: at most one status line is committed to the client in a session;
\* after the success line of a tunnel there is no other.
C10_SingleStatus ==
    /\ Len(statuses) <= 1
    /\ successWrites = 1 => statuses = <<StatusConnectionEstablished>>

C10_Witness ==
    /\ exit = "Closed"
    /\ statuses = <<StatusConnectionEstablished>>
    /\ cliClosed
    /\ Len(RelayedToClient) = 1
    /\ Len(dstWrote) = 2


\* C13: the token is non-empty exactly when the username and the password
\* are both non-empty, and it never changes.
C13_OptInAuth ==
    /\ [](authHeader # "" <=> (username # "" /\ password # ""))
    /\ [][authHeader' = authHeader]_vars

C13_Witness ==
    /\ username = "alice"
    /\ password = ""
    /\ authHeader = ""
    /\ exit = "Forwarded"

\* C15: when the dial succeeded and the ResponseWriter is no Hijacker, or
\* Hijack fails, the client gets 500, the success line is not written, no
\* relay copy starts, and the destination stream is closed when the handler
\* has returned.
C15_UpgradeFailures ==
    /\ exit \in {"HijackUnsupported", "HijackFailed"} =>
         /\ statuses = <<StatusInternalServerError>>
         /\ Len(dials) = 1 /\ dials[1].ok
         /\ ~hijacked
         /\ successWrites = 0
         /\ cliGot = <<>>
         /\ ~RelayActive
         /\ pc \in {"c_close_dest", "done"}
         /\ HandlerReturned =>
              conns[1].state = "closed" /\ conns[1].closes = 1
    /\ (Len(conns) = 1 /\ Len(trace) = 2 /\ trace[2] = "connect"
            /\ pc # "c_hijack" /\ ~hijackable) => exit = "HijackUnsupported"

C15_Witness ==
    /\ exit = "HijackFailed"
    /\ HandlerReturned
    /\ cliWrote # <<>>
    /\ dstWrote # <<>>

\* C16: once the CONNECT handler has returned from a tunnel, the copy
\* goroutine it started eventually ends.
C16_BackgroundCopyTermination ==
    (HandlerReturned /\ hijacked) ~> (gpc = "done")

C16_Witness ==
    /\ exit = "Closed"
    /\ gpc = "done"
    /\ ~cliClosed
    /\ cliWrote = <<>>

\* The states of section 4.2, read off the handler's position.
ConnectState ==
    CASE exit \in {"DialFailed", "HijackUnsupported", "HijackFailed"} -> exit
      [] exit = "Closed" -> "Closed"
      [] pc = "c_dial" -> "Dialing"
      [] pc \in {"c_hijack", "c_write", "c_go"} -> "Established"
      [] pc \in {"c_copy_read", "c_copy_write", "c_close_client",
                 "c_close_dest"} -> "Relaying"
      [] OTHER -> "None"

ConnectTransitions ==
    { <<"None", "Dialing">>,
      <<"Dialing", "Established">>, <<"Dialing", "DialFailed">>,
      <<"Established", "Relaying">>, <<"Established", "HijackUnsupported">>,
      <<"Established", "HijackFailed">>,
      <<"Relaying", "Closed">> }

\* C17: a CONNECT session moves only Dialing -> Established -> Relaying ->
\* Closed, leaving early only to DialFailed from Dialing and to
\* HijackUnsupported or HijackFailed from Established; it relays only after
\* a successful dial and hijack; nothing follows Closed, where the client
\* stream and the destination stream are both closed.
C17_ConnectStateMachine ==
    /\ [][ConnectState' # ConnectState =>
            <<ConnectState, ConnectState'>> \in ConnectTransitions]_vars
    /\ [](ConnectState = "Relaying" =>
            Len(dials) = 1 /\ dials[1].ok /\ hijacked)
    /\ [](ConnectState = "Closed" =>
            /\ HandlerReturned
            /\ cliCloses = 1
            /\ conns[1].state = "closed" /\ conns[1].closes = 1)

C17_Witness ==
    /\ ConnectState = "Closed"
    /\ cliClosed
    /\ ~dstClosed
    /\ gpc = "read"

InCopy == pc \in {"c_copy_read", "c_copy_write"}

\* C18: the handler leaves the relay, and closes the client stream and the
\* destination stream, only when the destination-to-client copy has ended
\* (EOF from the destination, or a failed write to the client); the end of
\* the client-to-destination copy changes neither the handler's position
\* nor either stream.
C18_RelayExitOneDirection ==
    /\ [][/\ (InCopy /\ ~InCopy') =>
               \/ pc = "c_copy_read" /\ d2p = <<>> /\ dstClosed
               \/ pc = "c_copy_write" /\ cliClosed'
          /\ (gpc # "done" /\ gpc' = "done") =>
               pc' = pc /\ cliCloses' = cliCloses /\ conns' = conns
          /\ cliCloses' # cliCloses => pc = "c_close_client"
          /\ (hijacked /\ conns' # conns) => pc = "c_close_dest"]_vars
    /\ []((hijacked /\ (cliCloses > 0 \/ conns[1].closes > 0)) =>
            pc \in {"c_close_dest", "done"})

C18_Witness ==
    /\ gpc = "done"
    /\ pc = "c_copy_read"
    /\ cliClosed
    /\ ~dstClosed
    /\ cliCloses = 0
    /\ conns[1].state = "open"

\* C19: whatever the Write of the success line returned, the handler goes
\* on to start both relay copies and no error status is written.
C19_SuccessWriteIgnored ==
    /\ successWrites = 1 =>
         /\ pc \in {"c_go", "c_copy_read", "c_copy_write", "c_close_client",
                    "c_close_dest", "done"}
         /\ statuses = <<StatusConnectionEstablished>>
         /\ pc # "c_go" => gpc # "none"
    /\ pc = "c_go" => successWrites = 1

C19_Witness ==
    /\ successWrites = 1
    /\ cliGot = <<SuccessLine[1]>>
    /\ dstGot # <<>>
    /\ statuses = <<StatusConnectionEstablished>>


\* C14: a CONNECT dial whose request context is cancelled while the dial is
\* in progress is abandoned, and however the cancellation and the completion
\* of the dial interleave, no destination connection is open once the
\* handler has returned.
C14_AbortDuringDial ==
    /\ (pc = "c_dial" /\ ctxDone) ~> (pc # "c_dial")
    /\ []((ctxDone /\ HandlerReturned) =>
            \A i \in 1..Len(conns) : conns[i].state = "closed")
    /\ []((ctxDone /\ exit = "DialFailed") => conns = <<>>)

C14_Witness ==
    /\ ctxDone
    /\ exit = "DialFailed"
    /\ HandlerReturned
    /\ DialCanSucceed(DialAddress(req))
    /\ statuses = <<StatusServiceUnavailable>>


\* C11: every request the proxy sends to a destination for a forwarded
\* request has the method, the target URL and the body of the inbound
\* request and a header set equal to the inbound one, nothing added and
\* nothing removed.
C11_RequestPassthrough ==
    \A i \in 1..Len(sent) :
        /\ sent[i].method = req.method
        /\ sent[i].url = req.url
        /\ sent[i].body = req.body
        /\ sent[i].header = RHeader(req)

\* C12: a forwarded request whose response body was copied to its end gave
\* the client exactly the status the upstream wrote, a header set equal to
\* the upstream's, and the upstream's body byte for byte.
C12_ResponsePassthrough ==
    (exit = "Forwarded" /\ bodyEOF) =>
        /\ statuses = <<up.status>>
        /\ wHeader = up.header
        /\ bodyOut = up.body

====
